---- MODULE Spec2Model ----
(***************************************************************************)
(* A model of the record reconciliation engine of qself: mergeTweets,      *)
(* mergeReadings, the anti-churn pass flipDuplicateTweetsOnTrivialChanges  *)
(* and the slice helpers they are built from, on sequences and on Go       *)
(* slices with their backing arrays, and syncAll with its two goroutines.  *)
(*                                                                         *)
(* The sources hold two revisions of the engine: src/main.go and the       *)
(* later one in src/unnamed/part_002 (lines 388-1254), which adds the      *)
(* sliceKeepOnly filter to mergeReadings and the Entities comparison to    *)
(* the anti-churn pass.  The variable rev says which of the two is built;  *)
(* every definition that differs between them switches on it.  Lines 1-387 *)
(* of part_002 are an earlier, Twitter-only main.go with no anti-churn     *)
(* pass and no mergeReadings; it is not modelled.                          *)
(***************************************************************************)
EXTENDS Integers, Sequences, FiniteSets, TLC

VARIABLES
    rev,               \* the revision of the engine that is built
    pc,                \* position of the caller (of syncAll's main goroutine
                       \* in SpecSyncAll): "idle" at first
    apiTweets,         \* mergeTweets' first argument (the fresh batch)
    existingTweets,    \* mergeTweets' second argument (the stored batch)
    mergedTweets,      \* what mergeTweets returned
    apiReadings,       \* mergeReadings' first argument (the fresh batch)
    existingReadings,  \* mergeReadings' second argument (the stored batch)
    mergedReadings,    \* what mergeReadings returned
    tweetFile,         \* syncTwitter's target file
    called,            \* the reconciler called on slices: "none" at first
    freshCap,          \* capacity of the fresh slice handed to that call
    freshAfter,        \* what the caller's fresh slice shows after the call
    storedAfter,       \* what the caller's stored slice shows after the call
    seqIn,             \* the slice handed to a slice helper
    refIn,             \* sliceKeepOnly's second slice
    seqOut,            \* what the helper returned
    seqAfter,          \* what the caller's slice shows after the helper
    syncPC,            \* position of each of syncAll's two goroutines
    syncRet,           \* what syncGoodreads / syncTwitter returned
    fetched,           \* how the fetch of each kind ended: "no" before it has
    written,           \* whether the target file of each kind was written
    wg,                \* the counter of syncAll's sync.WaitGroup
    goodreadsErr,      \* syncAll's goodreadsErr
    twitterErr,        \* syncAll's twitterErr
    result,            \* what syncAll returned; NotReturned before it does
    maxTweetID,        \* syncTwitter's paging cursor
    apiPage,           \* the page the timeline returned last
    readingFile,       \* syncGoodreads' target file
    goodreadsRet,      \* what syncGoodreads returned; NotReturned before
    remotePages,       \* number of non-empty pages of the remote listing
    segPC,             \* position of each segment goroutine
    segPage,           \* each segment's page
    knownEndPage,      \* syncGoodreads' knownEndPage
    anyErr,            \* syncGoodreads' anyErr
    mutex,             \* the segment holding syncGoodreads' mutex, or 0
    segmentsWg,        \* the counter of syncGoodreads' sync.WaitGroup
    fetchCount,        \* how often each page of Pages was requested
    fetchFailed        \* whether a page request has failed

\* the variables of the calls on slices
sliceVars == <<called, freshCap, freshAfter, storedAfter>>

\* the variables of the calls of the slice helpers
helperVars == <<seqIn, refIn, seqOut, seqAfter>>

\* the variables of syncAll
syncAllVars ==
    <<syncPC, syncRet, fetched, written, wg, goodreadsErr, twitterErr, result>>

\* the variables of the calls of the reconcilers and of syncTwitter
mergeVars == <<apiTweets, existingTweets, mergedTweets,
               apiReadings, existingReadings, mergedReadings, tweetFile>>

\* the variables of syncTwitter's paging loop
pagingVars == <<maxTweetID, apiPage>>

\* the variables of syncGoodreads and its segment goroutines
goodreadsVars ==
    <<readingFile, goodreadsRet, remotePages, segPC, segPage, knownEndPage,
      anyErr, mutex, segmentsWg, fetchCount, fetchFailed>>

vars == <<rev, pc, mergeVars, sliceVars, helperVars, syncAllVars,
          pagingVars, goodreadsVars>>

----------------------------------------------------------------------------
(* Bounds of the model. *)

\* a batch handed to a reconciler holds at most MaxLen records
MaxLen == 2

----------------------------------------------------------------------------
(* Data model. *)

Revisions == {"main.go", "part_002"}

\* a nil pointer (*TweetEntities, *TweetReply, *TweetRetweet); a record, as
\* the structures that non-nil pointers point at are
Nil == [nil |-> TRUE]

\* the file at targetPath: absent (os.Stat gives IsNotExist), or holding the
\* TweetDB last written
NoFile == [exists |-> FALSE, Tweets |-> <<>>]

FileOf(tweets) == [exists |-> TRUE, Tweets |-> tweets]

\* the identifiers (tweet ids, review ids) records are drawn with
IDs == {1, 2, 3}

\* the two record kinds syncAll synchronises, one goroutine each
Kinds == {"goodreads", "twitter"}

\* the error a sync of kind k returns when its step fails
Err(k, step) == [kind |-> k, failed |-> step]

\* syncAll has not returned yet
NotReturned == [returned |-> FALSE]

\* the file at syncGoodreads' targetPath: absent, or holding the ReadingDB
\* last written
NoReadingFile == [exists |-> FALSE, Readings |-> <<>>]

ReadingFileOf(readings) == [exists |-> TRUE, Readings |-> readings]

\* the number of goroutines syncGoodreads pages with
numSegments == 6

Segments == 1..numSegments

\* the pages that can hold reviews: the listing has at most MaxLen non-empty
\* pages
Pages == 1..MaxLen

\* The zero-valued Tweet with the given ID, as the unit tests build it.
PlainTweet(id) ==
    [ CreatedAt     |-> 0,
      Entities      |-> Nil,
      FavoriteCount |-> 0,
      ID            |-> id,
      Reply         |-> Nil,
      Retweet       |-> Nil,
      RetweetCount  |-> 0,
      Text          |-> "a" ]

\* Observations of the tweet with the given ID: the plain one and the ones
\* that differ from it in one field.
TweetVariants(id) ==
    LET p == PlainTweet(id) IN
    { p,
      [p EXCEPT !.Text = "b"],
      [p EXCEPT !.Entities = [Medias |-> <<[URL |-> "https://foo.com"]>>]],
      [p EXCEPT !.Entities = [Medias |-> <<[URL |-> "https://bar.com"]>>]],
      [p EXCEPT !.FavoriteCount = 2],
      [p EXCEPT !.FavoriteCount = 3],
      [p EXCEPT !.RetweetCount = 2],
      [p EXCEPT !.RetweetCount = 3],
      [p EXCEPT !.CreatedAt = 1],
      [p EXCEPT !.Reply = [StatusID |-> 7]],
      [p EXCEPT !.Retweet = [StatusID |-> 9]] }

\* Sequences of at most MaxLen distinct identifiers, in any order.
IDSeqs ==
    { s \in UNION { [1..n -> IDs] : n \in 0..MaxLen } :
        \A i, j \in DOMAIN s : i # j => s[i] # s[j] }

PlainTweets(ids) == [k \in DOMAIN ids |-> PlainTweet(ids[k])]

\* Batches of tweets with unique ids in which at most one tweet is not plain.
TweetBatches ==
    UNION { { PlainTweets(ids) } \cup
            UNION { { [PlainTweets(ids) EXCEPT ![k] = v] :
                          v \in TweetVariants(ids[k]) } :
                    k \in DOMAIN ids } :
            ids \in IDSeqs }

\* A Reading: its identity is ReviewID; Review and Rating stand for the payload.
Readings ==
    [ ReviewID : IDs, Review : {"s1", "s2"}, Rating : {0, 5} ]

\* Batches of readings with unique review ids, in any order.
ReadingBatches ==
    { s \in UNION { [1..n -> Readings] : n \in 0..MaxLen } :
        \A i, j \in DOMAIN s : i # j => s[i].ReviewID # s[j].ReviewID }

----------------------------------------------------------------------------
(* The slice helpers.  A slice is a sequence; Go's index i is i+1 here. *)

absInt(x) == IF x < 0 THEN -x ELSE x

\* InsertStable placing x before the elements of equal key: the sort is
\* ascending but not stable.
RECURSIVE InsertBeforeEqual(_, _, _)
InsertBeforeEqual(sorted, x, sel) ==
    IF sorted = <<>> THEN <<x>>
    ELSE IF x[sel] <= sorted[Len(sorted)][sel]
         THEN Append(InsertBeforeEqual(SubSeq(sorted, 1, Len(sorted) - 1),
                                       x, sel),
                     sorted[Len(sorted)])
         ELSE Append(sorted, x)

\* sort.SliceStable(s, less) with less comparing the integer field sel:
\* the one stable ascending arrangement, built by stable insertion.
RECURSIVE InsertStable(_, _, _)
InsertStable(sorted, x, sel) ==
    IF sorted = <<>> THEN <<x>>
    ELSE IF x[sel] < sorted[Len(sorted)][sel]
         THEN Append(InsertStable(SubSeq(sorted, 1, Len(sorted) - 1), x, sel),
                     sorted[Len(sorted)])
         ELSE Append(sorted, x)

\* sort.SliceStable left out: the slice stays as it was.
SliceUnsorted(s, sel) == s

RECURSIVE SliceStable(_, _)
SliceStable(s, sel) ==
    IF s = <<>> THEN <<>>
    ELSE InsertStable(SliceStable(SubSeq(s, 1, Len(s) - 1), sel), s[Len(s)], sel)

\* sliceReverse's loop with j left where it is: only i moves.
RECURSIVE sliceReverseFromFixedJ(_, _, _)
sliceReverseFromFixedJ(s, i, j) ==
    IF i < j
    THEN sliceReverseFromFixedJ([s EXCEPT ![i] = s[j], ![j] = s[i]], i + 1, j)
    ELSE s

\* sliceReverse's loop from (i, j): swap and move both inwards while i < j.
RECURSIVE sliceReverseFrom(_, _, _)
sliceReverseFrom(s, i, j) ==
    IF i < j
    THEN sliceReverseFrom([s EXCEPT ![i] = s[j], ![j] = s[i]], i + 1, j - 1)
    ELSE s

\* sliceReverse with j starting one short of the last index.
sliceReverseShort(s) == sliceReverseFrom(s, 1, Len(s) - 1)

sliceReverse(s) == sliceReverseFrom(s, 1, Len(s))

\* sliceUniq's loop exchanging slot j and slot i instead of writing slot j.
RECURSIVE sliceUniqFromSwap(_, _, _, _, _)
sliceUniqFromSwap(arr, sel, seen, j, i) ==
    IF i > Len(arr) THEN [arr |-> arr, j |-> j]
    ELSE IF arr[i][sel] \in seen
         THEN sliceUniqFromSwap(arr, sel, seen, j, i + 1)
         ELSE sliceUniqFromSwap([arr EXCEPT ![j] = arr[i], ![i] = arr[j]], sel,
                                seen \cup {arr[i][sel]}, j + 1, i + 1)

\* sliceUniq's loop without the entry in seen for the key of a kept item.
RECURSIVE sliceUniqFromNoSeen(_, _, _, _, _)
sliceUniqFromNoSeen(arr, sel, seen, j, i) ==
    IF i > Len(arr) THEN [arr |-> arr, j |-> j]
    ELSE IF arr[i][sel] \in seen
         THEN sliceUniqFromNoSeen(arr, sel, seen, j, i + 1)
         ELSE sliceUniqFromNoSeen([arr EXCEPT ![j] = arr[i]], sel,
                                  seen, j + 1, i + 1)

\* sliceUniq's loop from index i: arr is the slice's array, written in place,
\* seen the keys met so far, j the next slot to fill.  The selector reads
\* the array as it then is.
RECURSIVE sliceUniqFrom(_, _, _, _, _)
sliceUniqFrom(arr, sel, seen, j, i) ==
    IF i > Len(arr) THEN [arr |-> arr, j |-> j]
    ELSE LET item == arr[i]
             uniqValue == arr[i][sel]
         IN  IF uniqValue \in seen
             THEN sliceUniqFrom(arr, sel, seen, j, i + 1)
             ELSE sliceUniqFrom([arr EXCEPT ![j] = item], sel,
                                seen \cup {uniqValue}, j + 1, i + 1)

\* sliceUniq without the write of the kept item to slot j.
sliceUniqNoSet(s, sel) ==
    LET r == sliceUniqFrom(s, sel, {}, 1, 1) IN SubSeq(s, 1, r.j - 1)

sliceUniq(s, sel) ==
    LET r == sliceUniqFrom(s, sel, {}, 1, 1) IN SubSeq(r.arr, 1, r.j - 1)

\* The keys of s2 that sliceKeepOnly collects first.
s2Values(s2, sel2) == { s2[i][sel2] : i \in DOMAIN s2 }

\* sliceKeepOnly's second loop with the membership test the other way
\* round: the items whose key s2 lacks are the ones kept.
RECURSIVE sliceKeepOnlyFromInverted(_, _, _, _, _)
sliceKeepOnlyFromInverted(arr, sel1, values, j, i) ==
    IF i > Len(arr) THEN [arr |-> arr, j |-> j]
    ELSE IF arr[i][sel1] \in values
         THEN sliceKeepOnlyFromInverted(arr, sel1, values, j, i + 1)
         ELSE sliceKeepOnlyFromInverted([arr EXCEPT ![j] = arr[i]], sel1,
                                        values, j + 1, i + 1)

\* sliceKeepOnly's second loop from index i, writing the kept items in place.
RECURSIVE sliceKeepOnlyFrom(_, _, _, _, _)
sliceKeepOnlyFrom(arr, sel1, values, j, i) ==
    IF i > Len(arr) THEN [arr |-> arr, j |-> j]
    ELSE LET item == arr[i]
             value == arr[i][sel1]
         IN  IF value \notin values
             THEN sliceKeepOnlyFrom(arr, sel1, values, j, i + 1)
             ELSE sliceKeepOnlyFrom([arr EXCEPT ![j] = item], sel1, values,
                                    j + 1, i + 1)

sliceKeepOnly(s1, s2, sel1, sel2) ==
    LET r == sliceKeepOnlyFrom(s1, sel1, s2Values(s2, sel2), 1, 1)
    IN  SubSeq(r.arr, 1, r.j - 1)

----------------------------------------------------------------------------
(* The anti-churn pass and the two reconcilers. *)

\* reflect.DeepEqual on two *TweetEntities: both nil, or both non-nil and
\* pointing at structures equal field by field.
DeepEqual(e1, e2) == e1 = e2

\* flipsPair with the threshold one too high: a delta of 3 is trivial.
flipsPairThresholdFour(r, a, b) ==
    LET favoriteDiff == absInt(a.FavoriteCount - b.FavoriteCount)
        retweetDiff  == absInt(a.RetweetCount - b.RetweetCount)
    IN  /\ a.ID = b.ID
        /\ a.Text = b.Text
        /\ r = "part_002" => DeepEqual(a.Entities, b.Entities)
        /\ favoriteDiff < 4 /\ retweetDiff < 4

\* flipsPair with the threshold one too low: a delta of 2 is not trivial.
flipsPairThresholdTwo(r, a, b) ==
    LET favoriteDiff == absInt(a.FavoriteCount - b.FavoriteCount)
        retweetDiff  == absInt(a.RetweetCount - b.RetweetCount)
    IN  /\ a.ID = b.ID
        /\ a.Text = b.Text
        /\ r = "part_002" => DeepEqual(a.Entities, b.Entities)
        /\ favoriteDiff < 2 /\ retweetDiff < 2

\* flipsPair without absInt: a counter that went down by 3 or more counts
\* as trivial.
flipsPairNoAbs(r, a, b) ==
    LET favoriteDiff == a.FavoriteCount - b.FavoriteCount
        retweetDiff  == a.RetweetCount - b.RetweetCount
    IN  /\ a.ID = b.ID
        /\ a.Text = b.Text
        /\ r = "part_002" => DeepEqual(a.Entities, b.Entities)
        /\ favoriteDiff < 3 /\ retweetDiff < 3

\* flipsPair without the comparison of the texts.
flipsPairNoText(r, a, b) ==
    LET favoriteDiff == absInt(a.FavoriteCount - b.FavoriteCount)
        retweetDiff  == absInt(a.RetweetCount - b.RetweetCount)
    IN  /\ a.ID = b.ID
        /\ r = "part_002" => DeepEqual(a.Entities, b.Entities)
        /\ favoriteDiff < 3 /\ retweetDiff < 3

\* Whether the pass swaps the adjacent pair (a, b) = (tweets[i], tweets[j]).
\* main.go continues on favoriteDiff > 2 || retweetDiff > 2 and swaps
\* otherwise; part_002 first continues on Entities that are not deep-equal
\* and then swaps on favoriteDiff < 3 && retweetDiff < 3.
flipsPair(r, a, b) ==
    LET favoriteDiff == absInt(a.FavoriteCount - b.FavoriteCount)
        retweetDiff  == absInt(a.RetweetCount - b.RetweetCount)
    IN  /\ a.ID = b.ID
        /\ a.Text = b.Text
        /\ r = "part_002" => DeepEqual(a.Entities, b.Entities)
        /\ IF r = "part_002"
           THEN favoriteDiff < 3 /\ retweetDiff < 3
           ELSE ~(favoriteDiff > 2 \/ retweetDiff > 2)

\* The loop with an assignment in place of the swap: tweets[i] = tweets[j].
RECURSIVE flipFromOverwrite(_, _, _)
flipFromOverwrite(r, tweets, i) ==
    IF i + 1 > Len(tweets) THEN tweets
    ELSE IF flipsPair(r, tweets[i], tweets[i + 1])
         THEN flipFromOverwrite(r, [tweets EXCEPT ![i] = tweets[i + 1]], i + 1)
         ELSE flipFromOverwrite(r, tweets, i + 1)

\* The loop of flipDuplicateTweetsOnTrivialChanges from i (j = i + 1).
RECURSIVE flipFrom(_, _, _)
flipFrom(r, tweets, i) ==
    IF i + 1 > Len(tweets) THEN tweets
    ELSE IF flipsPair(r, tweets[i], tweets[i + 1])
         THEN flipFrom(r, [tweets EXCEPT ![i] = tweets[i + 1],
                                         ![i + 1] = tweets[i]], i + 1)
         ELSE flipFrom(r, tweets, i + 1)

flipDuplicateTweetsOnTrivialChanges(r, tweets) == flipFrom(r, tweets, 1)

\* mergeTweets with mergeReadings' filter: a stored tweet that the fresh
\* batch lacks is dropped.
mergeTweetsKeepOnly(r, s1, s2) ==
    LET s       == s1 \o sliceKeepOnly(s2, s1, "ID", "ID")
        sorted  == SliceStable(s, "ID")
        flipped == flipDuplicateTweetsOnTrivialChanges(r, sorted)
        sMerged == sliceUniq(flipped, "ID")
    IN  sliceReverse(sMerged)

mergeTweets(r, s1, s2) ==
    LET s       == s1 \o s2
        sorted  == SliceStable(s, "ID")
        flipped == flipDuplicateTweetsOnTrivialChanges(r, sorted)
        sMerged == sliceUniq(flipped, "ID")
    IN  sliceReverse(sMerged)

\* mergeReadings with the batches appended the other way round.
mergeReadingsStoredFirst(r, apiRs, existingRs) ==
    LET kept    == IF r = "part_002"
                   THEN sliceKeepOnly(existingRs, apiRs, "ReviewID", "ReviewID")
                   ELSE existingRs
        s       == kept \o apiRs
        sorted  == SliceStable(s, "ReviewID")
        sMerged == sliceUniq(sorted, "ReviewID")
    IN  sliceReverse(sMerged)

\* mergeReadings without sliceUniq.
mergeReadingsNoUniq(r, apiRs, existingRs) ==
    LET kept    == IF r = "part_002"
                   THEN sliceKeepOnly(existingRs, apiRs, "ReviewID", "ReviewID")
                   ELSE existingRs
        s       == apiRs \o kept
        sorted  == SliceStable(s, "ReviewID")
    IN  sliceReverse(sorted)

\* main.go appends s2 as it is; part_002 first keeps only the existing
\* readings whose ReviewID is among the API's.
mergeReadings(r, apiRs, existingRs) ==
    LET kept    == IF r = "part_002"
                   THEN sliceKeepOnly(existingRs, apiRs, "ReviewID", "ReviewID")
                   ELSE existingRs
        s       == apiRs \o kept
        sorted  == SliceStable(s, "ReviewID")
        sMerged == sliceUniq(sorted, "ReviewID")
    IN  sliceReverse(sMerged)

----------------------------------------------------------------------------
(* The reconcilers on Go slices.  A slice is a window on a backing array;   *)
(* the caller keeps its own slice headers of the two arguments, so what it  *)
(* sees after the call is the first len elements of each argument's array.  *)
(* An index outside the slice panics: ok is FALSE from there on.            *)

InRange(arr, i) == i \in 1..Len(arr)

\* append(s1, s2...) writes s2 behind s1 in s1's own array when its capacity
\* suffices (always when s2 is empty), and in a newly allocated one otherwise.
appendShares(s1, cap1, s2) == Len(s1) + Len(s2) <= cap1

\* The loop of flipDuplicateTweetsOnTrivialChanges with its index
\* expressions tweets[i], tweets[j] checked (j = i + 1).
RECURSIVE flipRun(_, _, _)
flipRun(r, tweets, i) ==
    IF ~(i + 1 <= Len(tweets)) THEN [arr |-> tweets, ok |-> TRUE]
    ELSE IF ~(InRange(tweets, i) /\ InRange(tweets, i + 1))
         THEN [arr |-> tweets, ok |-> FALSE]
         ELSE IF flipsPair(r, tweets[i], tweets[i + 1])
              THEN flipRun(r, [tweets EXCEPT ![i] = tweets[i + 1],
                                              ![i + 1] = tweets[i]], i + 1)
              ELSE flipRun(r, tweets, i + 1)

\* sliceUniq's loop with Index(i) and Index(j) checked.
RECURSIVE sliceUniqRun(_, _, _, _, _)
sliceUniqRun(arr, sel, seen, j, i) ==
    IF ~(i <= Len(arr)) THEN [arr |-> arr, j |-> j, ok |-> j - 1 <= Len(arr)]
    ELSE IF ~(InRange(arr, i) /\ InRange(arr, j))
         THEN [arr |-> arr, j |-> j, ok |-> FALSE]
         ELSE IF arr[i][sel] \in seen
              THEN sliceUniqRun(arr, sel, seen, j, i + 1)
              ELSE sliceUniqRun([arr EXCEPT ![j] = arr[i]], sel,
                                seen \cup {arr[i][sel]}, j + 1, i + 1)

\* sliceKeepOnly's second loop with Index(i) and Index(j) checked.
RECURSIVE sliceKeepOnlyRun(_, _, _, _, _)
sliceKeepOnlyRun(arr, sel1, values, j, i) ==
    IF ~(i <= Len(arr)) THEN [arr |-> arr, j |-> j, ok |-> j - 1 <= Len(arr)]
    ELSE IF ~(InRange(arr, i) /\ InRange(arr, j))
         THEN [arr |-> arr, j |-> j, ok |-> FALSE]
         ELSE IF arr[i][sel1] \notin values
              THEN sliceKeepOnlyRun(arr, sel1, values, j, i + 1)
              ELSE sliceKeepOnlyRun([arr EXCEPT ![j] = arr[i]], sel1, values,
                                    j + 1, i + 1)

\* sliceReverse's loop with swap(i, j) checked.
RECURSIVE sliceReverseRun(_, _, _)
sliceReverseRun(s, i, j) ==
    IF ~(i < j) THEN [arr |-> s, ok |-> TRUE]
    ELSE IF ~(InRange(s, i) /\ InRange(s, j))
         THEN [arr |-> s, ok |-> FALSE]
         ELSE sliceReverseRun([s EXCEPT ![i] = s[j], ![j] = s[i]], i + 1, j - 1)

\* sliceReverse with j starting one past the last index.
sliceReverseInPlaceLong(s) == sliceReverseRun(s, 1, Len(s) + 1)

sliceReverseInPlace(s) == sliceReverseRun(s, 1, Len(s))

\* What a call leaves behind when it panicked: no value is returned.
Panicked(s1, s2) ==
    [out |-> <<>>, ok |-> FALSE, fresh |-> s1, stored |-> s2]

\* From the append on, common to both reconcilers: s1 is the fresh slice
\* with capacity cap1, kept the slice appended to it, s2After what the
\* caller's stored slice shows by now.  The working slice s is sorted,
\* passed through the anti-churn pass (tweets only), compacted by sliceUniq
\* and its head sMerged reversed, all in its array; when append shared
\* s1's array, the caller's fresh slice shows the head of that array.
mergeRun(r, s1, cap1, kept, s2After, sel, withFlip) ==
    LET s      == s1 \o kept
        sorted == SliceStable(s, sel)
        f      == IF withFlip THEN flipRun(r, sorted, 1)
                              ELSE [arr |-> sorted, ok |-> TRUE]
    IN  IF ~f.ok THEN Panicked(s1, s2After)
        ELSE LET u == sliceUniqRun(f.arr, sel, {}, 1, 1)
             IN  IF ~u.ok THEN Panicked(s1, s2After)
                 ELSE LET v   == sliceReverseInPlace(SubSeq(u.arr, 1, u.j - 1))
                          arr == v.arr \o SubSeq(u.arr, u.j, Len(u.arr))
                      IN  IF ~v.ok THEN Panicked(s1, s2After)
                          ELSE [ out    |-> v.arr,
                                 ok     |-> TRUE,
                                 fresh  |-> IF appendShares(s1, cap1, kept)
                                            THEN SubSeq(arr, 1, Len(s1))
                                            ELSE s1,
                                 stored |-> s2After ]

\* mergeTweets reads s2 only: append copies its elements.
mergeTweetsRun(r, s1, cap1, s2) == mergeRun(r, s1, cap1, s2, s2, "ID", TRUE)

\* part_002 filters existingReadings with sliceKeepOnly first, which
\* compacts the kept readings to the front of existingReadings' own array.
mergeReadingsRun(r, s1, cap1, s2) ==
    IF r = "part_002"
    THEN LET k == sliceKeepOnlyRun(s2, "ReviewID",
                                   s2Values(s1, "ReviewID"), 1, 1)
         IN  IF ~k.ok THEN Panicked(s1, s2)
             ELSE mergeRun(r, s1, cap1, SubSeq(k.arr, 1, k.j - 1), k.arr,
                           "ReviewID", FALSE)
    ELSE mergeRun(r, s1, cap1, s2, s2, "ReviewID", FALSE)

----------------------------------------------------------------------------
(* Calls of the reconcilers on batches with unique ids. *)

Init ==
    /\ rev \in Revisions
    /\ pc = "idle"
    /\ apiTweets = <<>>
    /\ existingTweets = <<>>
    /\ mergedTweets = <<>>
    /\ apiReadings = <<>>
    /\ existingReadings = <<>>
    /\ mergedReadings = <<>>
    /\ tweetFile = NoFile
    /\ called = "none"
    /\ freshCap = 0
    /\ freshAfter = <<>>
    /\ storedAfter = <<>>
    /\ seqIn = <<>>
    /\ refIn = <<>>
    /\ seqOut = <<>>
    /\ seqAfter = <<>>
    /\ syncPC = [k \in Kinds |-> "notStarted"]
    /\ syncRet = [k \in Kinds |-> Nil]
    /\ fetched = [k \in Kinds |-> "no"]
    /\ written = [k \in Kinds |-> FALSE]
    /\ wg = 0
    /\ goodreadsErr = Nil
    /\ twitterErr = Nil
    /\ result = NotReturned
    /\ maxTweetID = 0
    /\ apiPage = <<>>
    /\ readingFile = NoReadingFile
    /\ goodreadsRet = NotReturned
    /\ remotePages = 0
    /\ segPC = [s \in Segments |-> "notStarted"]
    /\ segPage = [s \in Segments |-> 0]
    /\ knownEndPage = 0
    /\ anyErr = Nil
    /\ mutex = 0
    /\ segmentsWg = 0
    /\ fetchCount = [p \in Pages |-> 0]
    /\ fetchFailed = FALSE

\* s := mergeTweets(s1, s2)
CallMergeTweets ==
    /\ UNCHANGED <<pagingVars, goodreadsVars>>
    /\ pc = "idle"
    /\ \E s1 \in TweetBatches, s2 \in TweetBatches :
          /\ apiTweets' = s1
          /\ existingTweets' = s2
          /\ mergedTweets' = mergeTweets(rev, s1, s2)
    /\ pc' = "done"
    /\ UNCHANGED <<rev, apiReadings, existingReadings, mergedReadings, tweetFile,
                   sliceVars, helperVars, syncAllVars>>

\* s := mergeReadings(s1, s2)
CallMergeReadings ==
    /\ UNCHANGED <<pagingVars, goodreadsVars>>
    /\ pc = "idle"
    /\ \E s1 \in ReadingBatches, s2 \in ReadingBatches :
          /\ apiReadings' = s1
          /\ existingReadings' = s2
          /\ mergedReadings' = mergeReadings(rev, s1, s2)
    /\ pc' = "done"
    /\ UNCHANGED <<rev, apiTweets, existingTweets, mergedTweets, tweetFile,
                   sliceVars, helperVars, syncAllVars>>

NextTweets == CallMergeTweets

SpecTweets == Init /\ [][NextTweets]_vars

NextReadings == CallMergeReadings

SpecReadings == Init /\ [][NextReadings]_vars

----------------------------------------------------------------------------
(* Repeated runs of syncTwitter on one target file.  The fetch is not      *)
(* modelled here: a run draws the tweets it accumulated from SyncBatches.  *)
(* The file holds the Tweets last written; reading it back is taken to     *)
(* give the same Tweets.                                                   *)

\* What the timeline returns for a tweet: fewer observations than
\* TweetVariants, as each run multiplies them.
SyncVariants(id) ==
    LET p == PlainTweet(id) IN
    { p,
      [p EXCEPT !.Text = "b"],
      [p EXCEPT !.FavoriteCount = 2],
      [p EXCEPT !.FavoriteCount = 3] }

\* The timeline is paged newest first: ids strictly descending.
SyncBatches ==
    { s \in TweetBatches :
        /\ \A i \in DOMAIN s : s[i] \in SyncVariants(s[i].ID)
        /\ \A i, j \in DOMAIN s : i < j => s[i].ID > s[j].ID }

\* A run that fetches, merges with the existing file if there is one, and
\* writes the file.
SyncTwitter ==
    /\ UNCHANGED <<pagingVars, goodreadsVars>>
    /\ \E tweets \in SyncBatches :
          /\ apiTweets' = tweets
          /\ existingTweets' = tweetFile.Tweets
          /\ mergedTweets' = IF tweetFile.exists
                             THEN mergeTweets(rev, tweets, tweetFile.Tweets)
                             ELSE tweets
          /\ tweetFile' = FileOf(mergedTweets')
    /\ pc' = "synced"
    /\ UNCHANGED <<rev, apiReadings, existingReadings, mergedReadings,
                   sliceVars, helperVars, syncAllVars>>

\* A run that returns an error before it writes (the timeline request, the
\* read of the file or its unmarshalling failed).
SyncTwitterFails ==
    /\ UNCHANGED <<pagingVars, goodreadsVars>>
    /\ pc' = "failed"
    /\ UNCHANGED <<rev, apiTweets, existingTweets, mergedTweets,
                   apiReadings, existingReadings, mergedReadings, tweetFile,
                   sliceVars, helperVars, syncAllVars>>

NextSync == SyncTwitter \/ SyncTwitterFails

SpecSync == Init /\ [][NextSync]_vars

----------------------------------------------------------------------------
(* Calls of the reconcilers on slices: the caller hands over a fresh slice  *)
(* of some capacity and a stored slice, and looks at both afterwards.       *)
(* syncTwitter and syncGoodreads build the fresh slice by repeated append,  *)
(* which leaves spare capacity behind its last element.                     *)

\* Batches of tweets for these calls: the observations of SyncVariants.
SliceTweetBatches ==
    { s \in TweetBatches : \A i \in DOMAIN s : s[i] \in SyncVariants(s[i].ID) }

\* Batches of readings for these calls: one Rating.
SliceReadingBatches ==
    { s \in ReadingBatches : \A i \in DOMAIN s : s[i].Rating = 0 }

\* The capacities a slice of the given length is drawn with.
Capacities(s) == Len(s)..(Len(s) + MaxLen)

\* s := mergeTweets(s1, s2), s1 of capacity cap1
CallMergeTweetsOnSlices ==
    /\ UNCHANGED <<pagingVars, goodreadsVars>>
    /\ pc = "idle"
    /\ \E s1 \in SliceTweetBatches, s2 \in SliceTweetBatches :
         \E cap1 \in Capacities(s1) :
            LET run == mergeTweetsRun(rev, s1, cap1, s2) IN
            /\ apiTweets' = s1
            /\ existingTweets' = s2
            /\ freshCap' = cap1
            /\ mergedTweets' = run.out
            /\ freshAfter' = run.fresh
            /\ storedAfter' = run.stored
            /\ pc' = IF run.ok THEN "done" ELSE "panicked"
    /\ called' = "mergeTweets"
    /\ UNCHANGED <<rev, apiReadings, existingReadings, mergedReadings, tweetFile,
                   helperVars, syncAllVars>>

\* s := mergeReadings(s1, s2), s1 of capacity cap1
CallMergeReadingsOnSlices ==
    /\ UNCHANGED <<pagingVars, goodreadsVars>>
    /\ pc = "idle"
    /\ \E s1 \in SliceReadingBatches, s2 \in SliceReadingBatches :
         \E cap1 \in Capacities(s1) :
            LET run == mergeReadingsRun(rev, s1, cap1, s2) IN
            /\ apiReadings' = s1
            /\ existingReadings' = s2
            /\ freshCap' = cap1
            /\ mergedReadings' = run.out
            /\ freshAfter' = run.fresh
            /\ storedAfter' = run.stored
            /\ pc' = IF run.ok THEN "done" ELSE "panicked"
    /\ called' = "mergeReadings"
    /\ UNCHANGED <<rev, apiTweets, existingTweets, mergedTweets, tweetFile,
                   helperVars, syncAllVars>>

NextSlices == CallMergeTweetsOnSlices \/ CallMergeReadingsOnSlices

SpecSlices == Init /\ [][NextSlices]_vars

----------------------------------------------------------------------------
(* Calls of the slice helpers on slices of any content: elements that      *)
(* share a key are told apart by their tag.  The selector of every call    *)
(* returns the key of the element at the index it is given, as the         *)
(* selectors of the unit tests and of the reconcilers do.                  *)

Elements == [key : IDs, tag : {"x", "y"}]

\* Slices of at most MaxLen + 1 elements, keys repeating or not.
ElementSeqs == UNION { [1..n -> Elements] : n \in 0..(MaxLen + 1) }

\* Slices of at most MaxLen elements tagged "x": sliceKeepOnly takes only
\* the keys of its second slice.
ReferenceSeqs ==
    { s \in UNION { [1..n -> Elements] : n \in 0..MaxLen } :
        \A i \in DOMAIN s : s[i].tag = "x" }

\* s = sliceUniq(s, selector)
CallSliceUniq ==
    /\ UNCHANGED <<pagingVars, goodreadsVars>>
    /\ pc = "idle"
    /\ \E s \in ElementSeqs :
          /\ seqIn' = s
          /\ seqOut' = sliceUniq(s, "key")
          /\ seqAfter' = sliceUniqFrom(s, "key", {}, 1, 1).arr
    /\ refIn' = <<>>
    /\ called' = "sliceUniq"
    /\ pc' = "done"
    /\ UNCHANGED <<rev, mergeVars, freshCap, freshAfter, storedAfter, syncAllVars>>

\* s1 = sliceKeepOnly(s1, s2, selector1, selector2)
CallSliceKeepOnly ==
    /\ UNCHANGED <<pagingVars, goodreadsVars>>
    /\ pc = "idle"
    /\ \E s1 \in ElementSeqs, s2 \in ReferenceSeqs :
          /\ seqIn' = s1
          /\ refIn' = s2
          /\ seqOut' = sliceKeepOnly(s1, s2, "key", "key")
          /\ seqAfter' = sliceKeepOnlyFrom(s1, "key", s2Values(s2, "key"), 1, 1).arr
    /\ called' = "sliceKeepOnly"
    /\ pc' = "done"
    /\ UNCHANGED <<rev, mergeVars, freshCap, freshAfter, storedAfter, syncAllVars>>

\* sliceReverse(s): nothing is returned, the slice is reversed where it is
CallSliceReverse ==
    /\ UNCHANGED <<pagingVars, goodreadsVars>>
    /\ pc = "idle"
    /\ \E s \in ElementSeqs :
          /\ seqIn' = s
          /\ seqAfter' = sliceReverse(s)
    /\ seqOut' = <<>>
    /\ refIn' = <<>>
    /\ called' = "sliceReverse"
    /\ pc' = "done"
    /\ UNCHANGED <<rev, mergeVars, freshCap, freshAfter, storedAfter, syncAllVars>>

NextHelpers == CallSliceUniq \/ CallSliceKeepOnly \/ CallSliceReverse

SpecHelpers == Init /\ [][NextHelpers]_vars

----------------------------------------------------------------------------
(* syncTwitter's paging of the user timeline: a request per page with      *)
(* MaxID set to the ID of the last tweet of the page before, until a page  *)
(* holds no tweet below MaxID; then the merge with the target file and the *)
(* write.  apiTweets holds the tweets accumulated, apiPage the page last   *)
(* returned.                                                               *)

\* The IDs the timeline holds.
TimelineIDs == 1..(MaxLen + 2)

\* The twitter.Tweet with the given ID as the API returns it: tweet 2 is a
\* reply.
APITweet(id) ==
    [ CreatedAt         |-> 0,
      Media             |-> <<>>,
      FavoriteCount     |-> 0,
      ID                |-> id,
      InReplyToStatusID |-> IF id = 2 THEN 7 ELSE 0,
      RetweetedStatus   |-> Nil,
      RetweetCount      |-> 0,
      FullText          |-> "a" ]

tweetFromAPITweet(tweet) ==
    [ CreatedAt     |-> tweet.CreatedAt,
      Entities      |-> IF Len(tweet.Media) > 0
                        THEN [Medias |-> [k \in DOMAIN tweet.Media |->
                                            [URL |-> tweet.Media[k]]]]
                        ELSE Nil,
      FavoriteCount |-> tweet.FavoriteCount,
      ID            |-> tweet.ID,
      Reply         |-> IF tweet.InReplyToStatusID # 0
                        THEN [StatusID |-> tweet.InReplyToStatusID]
                        ELSE Nil,
      Retweet       |-> IF tweet.RetweetedStatus # Nil
                        THEN [StatusID |-> tweet.RetweetedStatus.ID]
                        ELSE Nil,
      RetweetCount  |-> tweet.RetweetCount,
      Text          |-> tweet.FullText ]

\* The pages a request with the given MaxID can return: at most MaxLen
\* tweets, newest first, none above MaxID (0: no limit).
TimelinePages(maxID) ==
    { [k \in DOMAIN ids |-> APITweet(ids[k])] :
        ids \in { s \in UNION { [1..n -> TimelineIDs] : n \in 0..MaxLen } :
                    /\ \A i, j \in DOMAIN s : i < j => s[i] > s[j]
                    /\ maxID # 0 => \A i \in DOMAIN s : s[i] <= maxID } }

\* The test with the comparison of the boundary left out: tweets above
\* MaxID only.
skipsAPITweetAboveOnly(maxID, apiTweet) == maxID # 0 /\ apiTweet.ID > maxID

\* if maxTweetID != 0 && apiTweet.ID >= maxTweetID { continue }
skipsAPITweet(maxID, apiTweet) == maxID # 0 /\ apiTweet.ID >= maxID

\* The tweets of the page that the inner loop appends.
RECURSIVE processedFrom(_, _, _)
processedFrom(maxID, page, i) ==
    IF i > Len(page) THEN <<>>
    ELSE IF skipsAPITweet(maxID, page[i])
         THEN processedFrom(maxID, page, i + 1)
         ELSE <<tweetFromAPITweet(page[i])>> \o processedFrom(maxID, page, i + 1)

PagingFrame ==
    UNCHANGED <<rev, apiReadings, existingReadings, mergedReadings,
                sliceVars, helperVars, syncAllVars, goodreadsVars>>

\* var tweets []*Tweet; var maxTweetID int64 = 0
StartPaging ==
    /\ pc \in {"idle", "synced", "failed"}
    /\ apiTweets' = <<>>
    /\ maxTweetID' = 0
    /\ apiPage' = <<>>
    /\ pc' = "paging"
    /\ PagingFrame
    /\ UNCHANGED <<existingTweets, mergedTweets, tweetFile>>

\* One turn of the loop with a page that holds a tweet to process.
FetchTimelinePage ==
    /\ pc = "paging"
    /\ \E page \in TimelinePages(maxTweetID) :
          /\ processedFrom(maxTweetID, page, 1) # <<>>
          /\ apiPage' = page
          /\ apiTweets' = apiTweets \o processedFrom(maxTweetID, page, 1)
          /\ maxTweetID' = page[Len(page)].ID
    /\ pc' = "paging"
    /\ PagingFrame
    /\ UNCHANGED <<existingTweets, mergedTweets, tweetFile>>

\* The turn of the loop with a page that holds none: break
FetchLastTimelinePage ==
    /\ pc = "paging"
    /\ \E page \in TimelinePages(maxTweetID) :
          /\ processedFrom(maxTweetID, page, 1) = <<>>
          /\ apiPage' = page
    /\ pc' = "paged"
    /\ PagingFrame
    /\ UNCHANGED <<apiTweets, maxTweetID, existingTweets, mergedTweets,
                   tweetFile>>

\* The merge with the target file, if there is one, and the write.
MergeAndWriteTweets ==
    /\ pc = "paged"
    /\ existingTweets' = tweetFile.Tweets
    /\ mergedTweets' = IF tweetFile.exists
                       THEN mergeTweets(rev, apiTweets, tweetFile.Tweets)
                       ELSE apiTweets
    /\ tweetFile' = FileOf(mergedTweets')
    /\ pc' = "synced"
    /\ PagingFrame
    /\ UNCHANGED <<apiTweets, pagingVars>>

\* A request of the timeline, the read of the file, its unmarshalling, the
\* marshalling or the write fails: syncTwitter returns the error.
PagingSyncFails ==
    /\ pc \in {"paging", "paged"}
    /\ pc' = "failed"
    /\ PagingFrame
    /\ UNCHANGED <<apiTweets, pagingVars, existingTweets, mergedTweets,
                   tweetFile>>

NextPaging ==
    \/ StartPaging
    \/ FetchTimelinePage
    \/ FetchLastTimelinePage
    \/ MergeAndWriteTweets
    \/ PagingSyncFails

SpecPaging == Init /\ [][NextPaging]_vars

----------------------------------------------------------------------------
(* flipDuplicateTweetsOnTrivialChanges on the slice mergeTweets hands it:  *)
(* sorted by ID, lowest first, an ID standing once or several times.       *)

\* The records a sorted slice holds: observations of a tweet that differ in
\* the text, the entities or a counter.
FlipVariants(id) ==
    LET p == PlainTweet(id) IN
    { p,
      [p EXCEPT !.Text = "b"],
      [p EXCEPT !.Entities = [Medias |-> <<[URL |-> "https://foo.com"]>>]],
      [p EXCEPT !.FavoriteCount = 2],
      [p EXCEPT !.FavoriteCount = 3] }

FlipRecords == UNION { FlipVariants(id) : id \in IDs }

\* Slices of at most MaxLen + 1 records, sorted as sort.SliceStable leaves
\* them.
SortedTweetSeqs ==
    { s \in UNION { [1..n -> FlipRecords] : n \in 0..(MaxLen + 1) } :
        \A i, j \in DOMAIN s : i < j => s[i].ID <= s[j].ID }

\* flipDuplicateTweetsOnTrivialChanges(tweets): nothing is returned, the
\* slice is changed where it is
CallFlip ==
    /\ pc = "idle"
    /\ \E s \in SortedTweetSeqs :
          /\ seqIn' = s
          /\ seqAfter' = flipDuplicateTweetsOnTrivialChanges(rev, s)
    /\ seqOut' = <<>>
    /\ refIn' = <<>>
    /\ called' = "flipDuplicateTweetsOnTrivialChanges"
    /\ pc' = "done"
    /\ UNCHANGED <<rev, mergeVars, freshCap, freshAfter, storedAfter,
                   syncAllVars, pagingVars, goodreadsVars>>

NextFlip == CallFlip

SpecFlip == Init /\ [][NextFlip]_vars

----------------------------------------------------------------------------
(* syncAll: the main goroutine starts one goroutine per kind, each running *)
(* syncGoodreads or syncTwitter from its fetch to the write of its target  *)
(* file, and waits for both on the WaitGroup.  A sync is three steps, each *)
(* of which may fail and make it return an error: the fetch (the conf and  *)
(* the paging loop), the reconciliation (os.Stat, and for an existing file *)
(* its read, its unmarshalling and the merge), and the persistence (the    *)
(* marshalling and ioutil.WriteFile).                                      *)

\* wg.Add(1); go func() { ... }() for the given kind, at main's position at
\* and leaving it at position next
Spawn(k, at, next) ==
    /\ UNCHANGED <<pagingVars, goodreadsVars>>
    /\ pc = at
    /\ syncPC[k] = "notStarted"
    /\ wg' = wg + 1
    /\ syncPC' = [syncPC EXCEPT ![k] = "fetch"]
    /\ pc' = next
    /\ UNCHANGED <<rev, mergeVars, sliceVars, helperVars, syncRet, fetched,
                   written, goodreadsErr, twitterErr, result>>

SpawnGoodreads == Spawn("goodreads", "idle", "spawnedGoodreads")

SpawnTwitter == Spawn("twitter", "spawnedGoodreads", "waiting")

\* A step of the sync of kind k from position at: to position next, or, with
\* the error err, to its return.
SyncStep(k, at, next, err) ==
    /\ UNCHANGED <<pagingVars, goodreadsVars>>
    /\ syncPC[k] = at
    /\ syncPC' = [syncPC EXCEPT ![k] = IF err = Nil THEN next ELSE "returned"]
    /\ syncRet' = [syncRet EXCEPT ![k] = err]
    /\ UNCHANGED <<rev, pc, mergeVars, sliceVars, helperVars, wg,
                   goodreadsErr, twitterErr, result>>

\* The fetch failed and the error is dropped: the sync goes on.
FetchFailsUnnoticed(k) ==
    /\ SyncStep(k, "fetch", "reconcile", Nil)
    /\ fetched' = [fetched EXCEPT ![k] = "failed"]
    /\ UNCHANGED written

FetchOK(k) ==
    /\ SyncStep(k, "fetch", "reconcile", Nil)
    /\ fetched' = [fetched EXCEPT ![k] = "ok"]
    /\ UNCHANGED written

FetchFails(k) ==
    /\ SyncStep(k, "fetch", "reconcile", Err(k, "fetch"))
    /\ fetched' = [fetched EXCEPT ![k] = "failed"]
    /\ UNCHANGED written

ReconcileOK(k) ==
    /\ SyncStep(k, "reconcile", "persist", Nil)
    /\ UNCHANGED <<fetched, written>>

ReconcileFails(k) ==
    /\ SyncStep(k, "reconcile", "persist", Err(k, "read"))
    /\ UNCHANGED <<fetched, written>>

\* The file is written and the sync returns nil.
PersistOK(k) ==
    /\ SyncStep(k, "persist", "returned", Nil)
    /\ written' = [written EXCEPT ![k] = TRUE]
    /\ UNCHANGED fetched

PersistFails(k) ==
    /\ SyncStep(k, "persist", "returned", Err(k, "write"))
    /\ UNCHANGED <<fetched, written>>

\* goodreadsErr = syncGoodreads(...), twitterErr = syncTwitter(...)
AssignErr(k) ==
    /\ UNCHANGED <<pagingVars, goodreadsVars>>
    /\ syncPC[k] = "returned"
    /\ syncPC' = [syncPC EXCEPT ![k] = "assigned"]
    /\ goodreadsErr' = IF k = "goodreads" THEN syncRet[k] ELSE goodreadsErr
    /\ twitterErr' = IF k = "twitter" THEN syncRet[k] ELSE twitterErr
    /\ UNCHANGED <<rev, pc, mergeVars, sliceVars, helperVars, syncRet, fetched,
                   written, wg, result>>

\* wg.Done()
Done(k) ==
    /\ UNCHANGED <<pagingVars, goodreadsVars>>
    /\ syncPC[k] = "assigned"
    /\ syncPC' = [syncPC EXCEPT ![k] = "done"]
    /\ wg' = wg - 1
    /\ UNCHANGED <<rev, pc, mergeVars, sliceVars, helperVars, syncRet, fetched,
                   written, goodreadsErr, twitterErr, result>>

\* syncAll's return value from the two error variables.
syncAllResult(gErr, tErr) ==
    IF gErr # Nil THEN gErr
    ELSE IF tErr # Nil THEN tErr
    ELSE Nil

\* main returns without waiting for the counter to reach zero.
ReturnWithoutWait ==
    /\ UNCHANGED <<pagingVars, goodreadsVars>>
    /\ pc = "waiting"
    /\ result' = syncAllResult(goodreadsErr, twitterErr)
    /\ pc' = "returned"
    /\ UNCHANGED <<rev, mergeVars, sliceVars, helperVars, syncPC, syncRet,
                   fetched, written, wg, goodreadsErr, twitterErr>>

\* wg.Wait() and the return
WaitAndReturn ==
    /\ UNCHANGED <<pagingVars, goodreadsVars>>
    /\ pc = "waiting"
    /\ wg = 0
    /\ result' = syncAllResult(goodreadsErr, twitterErr)
    /\ pc' = "returned"
    /\ UNCHANGED <<rev, mergeVars, sliceVars, helperVars, syncPC, syncRet,
                   fetched, written, wg, goodreadsErr, twitterErr>>

NextSyncAll ==
    \/ SpawnGoodreads
    \/ SpawnTwitter
    \/ \E k \in Kinds :
          \/ FetchOK(k)
          \/ FetchFails(k)
          \/ ReconcileOK(k)
          \/ ReconcileFails(k)
          \/ PersistOK(k)
          \/ PersistFails(k)
          \/ AssignErr(k)
          \/ Done(k)
    \/ WaitAndReturn

SpecSyncAll == Init /\ [][NextSyncAll]_vars

----------------------------------------------------------------------------
(* Repeated runs of syncGoodreads on one target file, as SpecSync has them *)
(* for syncTwitter.  The paging is not modelled here: a run draws the      *)
(* readings it accumulated, in the order the pages gave them (the listing  *)
(* is requested sorted by date_read, and the segments of part_002 append   *)
(* their pages as they come).                                              *)

\* What the listing returns: readings with unique review ids in any order;
\* one payload, as each run multiplies them.
SyncReadingBatches ==
    { s \in SliceReadingBatches : \A i \in DOMAIN s : s[i].Review = "s1" }

\* A run that fetches, merges with the existing file if there is one, and
\* writes the file.
SyncGoodreads ==
    /\ \E readings \in SyncReadingBatches :
          /\ apiReadings' = readings
          /\ existingReadings' = readingFile.Readings
          /\ mergedReadings' = IF readingFile.exists
                               THEN mergeReadings(rev, readings,
                                                  readingFile.Readings)
                               ELSE readings
          /\ readingFile' = ReadingFileOf(mergedReadings')
    /\ goodreadsRet' = Nil
    /\ pc' = "synced"
    /\ UNCHANGED <<rev, apiTweets, existingTweets, mergedTweets, tweetFile,
                   sliceVars, helperVars, syncAllVars, pagingVars,
                   remotePages, segPC, segPage, knownEndPage, anyErr, mutex,
                   segmentsWg, fetchCount, fetchFailed>>

\* A run that returns an error before it writes.
SyncGoodreadsFails ==
    /\ goodreadsRet' = Err("goodreads", "fetch")
    /\ pc' = "failed"
    /\ UNCHANGED <<rev, mergeVars, sliceVars, helperVars, syncAllVars,
                   pagingVars, readingFile, remotePages, segPC, segPage,
                   knownEndPage, anyErr, mutex, segmentsWg, fetchCount,
                   fetchFailed>>

NextSyncGoodreads == SyncGoodreads \/ SyncGoodreadsFails

SpecSyncGoodreads == Init /\ [][NextSyncGoodreads]_vars

----------------------------------------------------------------------------
(* One run of the syncGoodreads of part_002, which pages the listing with  *)
(* numSegments goroutines: segment s requests the pages s, s + numSegments,*)
(* ... until a request fails, a page comes back empty, or its page is at   *)
(* or beyond knownEndPage.  A step of a segment ends with one access to    *)
(* the lock of the mutex or with the segment's last access to the shared   *)
(* variables before it; the request and the conversion of the reviews,     *)
(* which touch nothing shared, are part of the step that reads             *)
(* knownEndPage.  knownEndPage at the top of the loop and anyErr are       *)
(* accessed without the mutex: a read of knownEndPage that races with the  *)
(* write gives the old or the new value, which the order of the two steps  *)
(* decides, and racing writes of anyErr leave one of the errors or a mix   *)
(* of the interface words of two of them.                                  *)

\* The readings of page p of a listing of n non-empty pages: one reading,
\* with the page's number as its review id, or none beyond page n.
PageReadings(p, n) ==
    IF p <= n THEN <<[ReviewID |-> p, Review |-> "s1", Rating |-> 0]>>
    ELSE <<>>

\* wg.Add(numSegments) and the six go statements; the listing has some
\* number of non-empty pages.
StartSegments ==
    /\ pc = "idle"
    /\ rev = "part_002"
    /\ \E n \in 0..MaxLen : remotePages' = n
    /\ segmentsWg' = numSegments
    /\ segPC' = [s \in Segments |-> "check"]
    /\ segPage' = [s \in Segments |-> s]
    /\ pc' = "waitSegments"
    /\ UNCHANGED <<rev, mergeVars, sliceVars, helperVars, syncAllVars,
                   pagingVars, readingFile, goodreadsRet, knownEndPage,
                   anyErr, mutex, fetchCount, fetchFailed>>

\* What a step of a segment leaves alone besides the variables it names.
SegmentFrame ==
    UNCHANGED <<rev, pc, mergeVars, sliceVars, helperVars, syncAllVars,
                pagingVars, readingFile, goodreadsRet, remotePages>>

\* The test at the top of the loop: the segment's page is at or beyond the
\* known end.
BeyondKnownEnd(s) == knownEndPage # 0 /\ segPage[s] >= knownEndPage

\* break at the top of the loop, and wg.Done()
SegmentStops(s) ==
    /\ segPC[s] = "check"
    /\ BeyondKnownEnd(s)
    /\ segPC' = [segPC EXCEPT ![s] = "done"]
    /\ segmentsWg' = segmentsWg - 1
    /\ SegmentFrame
    /\ UNCHANGED <<segPage, knownEndPage, anyErr, mutex, fetchCount,
                   fetchFailed>>

\* fetchGoodreadsPage for the segment's page.
SegmentFetch(s) ==
    /\ segPC[s] = "check"
    /\ ~BeyondKnownEnd(s)
    /\ fetchCount' = IF segPage[s] \in Pages
                     THEN [fetchCount EXCEPT ![segPage[s]] = @ + 1]
                     ELSE fetchCount
    /\ SegmentFrame
    /\ UNCHANGED <<apiReadings, segPage, knownEndPage, mutex>>

\* The error of a failed request.
FetchErr == Err("goodreads", "fetch")

\* A non-nil error value of which one word was written by each of two
\* racing assignments.
TornErr == Err("goodreads", "torn")

\* What anyErr = err can leave in anyErr: no two of these assignments are
\* ordered by a synchronisation, so from the second one on the value may
\* be a mix of two errors.
AssignedErr == IF anyErr = Nil THEN {FetchErr} ELSE {FetchErr, TornErr}

\* The request fails: anyErr = err; break; wg.Done()
SegmentFetchFails(s) ==
    /\ SegmentFetch(s)
    /\ fetchFailed' = TRUE
    /\ anyErr' \in AssignedErr
    /\ segPC' = [segPC EXCEPT ![s] = "done"]
    /\ segmentsWg' = segmentsWg - 1

\* The page comes back empty: on to mutex.Lock()
SegmentFetchEmpty(s) ==
    /\ segPage[s] > remotePages
    /\ SegmentFetch(s)
    /\ segPC' = [segPC EXCEPT ![s] = "lockEnd"]
    /\ UNCHANGED <<anyErr, segmentsWg, fetchFailed>>

\* The page comes back with reviews, which are converted: on to
\* mutex.Lock()
SegmentFetchPage(s) ==
    /\ segPage[s] <= remotePages
    /\ SegmentFetch(s)
    /\ segPC' = [segPC EXCEPT ![s] = "lockAppend"]
    /\ UNCHANGED <<anyErr, segmentsWg, fetchFailed>>

\* mutex.Lock() at position at
SegmentLock(s, at, next) ==
    /\ segPC[s] = at
    /\ mutex = 0
    /\ mutex' = s
    /\ segPC' = [segPC EXCEPT ![s] = next]
    /\ SegmentFrame
    /\ UNCHANGED <<segPage, knownEndPage, anyErr, segmentsWg, fetchCount,
                   fetchFailed>>

SegmentLockEnd(s) == SegmentLock(s, "lockEnd", "setEnd")

SegmentLockAppend(s) == SegmentLock(s, "lockAppend", "append")

\* The update of knownEndPage without mutex.Unlock(): the segment ends
\* holding the mutex.
SegmentSetEndKeepsMutex(s) ==
    /\ segPC[s] = "setEnd"
    /\ knownEndPage' = IF knownEndPage = 0 \/ segPage[s] < knownEndPage
                       THEN segPage[s] ELSE knownEndPage
    /\ segPC' = [segPC EXCEPT ![s] = "done"]
    /\ segmentsWg' = segmentsWg - 1
    /\ SegmentFrame
    /\ UNCHANGED <<segPage, anyErr, mutex, fetchCount, fetchFailed>>

\* the update of knownEndPage; mutex.Unlock(); break; wg.Done()
SegmentSetEnd(s) ==
    /\ segPC[s] = "setEnd"
    /\ knownEndPage' = IF knownEndPage = 0 \/ segPage[s] < knownEndPage
                       THEN segPage[s] ELSE knownEndPage
    /\ mutex' = 0
    /\ segPC' = [segPC EXCEPT ![s] = "done"]
    /\ segmentsWg' = segmentsWg - 1
    /\ SegmentFrame
    /\ UNCHANGED <<segPage, anyErr, fetchCount, fetchFailed>>

\* The segment turns to the page behind its own.
NextPageByOne(p) == p + 1

\* The page the segment turns to after the page p.
NextPage(p) == p + numSegments

\* The append of a page with the error of the other segments cleared:
\* anyErr = nil
SegmentAppendClearsErr(s) ==
    /\ segPC[s] = "append"
    /\ apiReadings' = apiReadings \o PageReadings(segPage[s], remotePages)
    /\ anyErr' = Nil
    /\ mutex' = 0
    /\ segPage' = [segPage EXCEPT ![s] = NextPage(segPage[s])]
    /\ segPC' = [segPC EXCEPT ![s] = "check"]
    /\ UNCHANGED <<rev, pc, apiTweets, existingTweets, mergedTweets,
                   existingReadings, mergedReadings, tweetFile, sliceVars,
                   helperVars, syncAllVars, pagingVars, readingFile,
                   goodreadsRet, remotePages, knownEndPage,
                   segmentsWg, fetchCount, fetchFailed>>

\* readings = append(readings, pageReadings...); mutex.Unlock();
\* page += numSegments
SegmentAppend(s) ==
    /\ segPC[s] = "append"
    /\ apiReadings' = apiReadings \o PageReadings(segPage[s], remotePages)
    /\ mutex' = 0
    /\ segPage' = [segPage EXCEPT ![s] = NextPage(segPage[s])]
    /\ segPC' = [segPC EXCEPT ![s] = "check"]
    /\ UNCHANGED <<rev, pc, apiTweets, existingTweets, mergedTweets,
                   existingReadings, mergedReadings, tweetFile, sliceVars,
                   helperVars, syncAllVars, pagingVars, readingFile,
                   goodreadsRet, remotePages, knownEndPage, anyErr,
                   segmentsWg, fetchCount, fetchFailed>>

\* What the end of syncGoodreads leaves alone.
JoinFrame ==
    UNCHANGED <<rev, apiTweets, existingTweets, mergedTweets, apiReadings,
                tweetFile, sliceVars, helperVars, syncAllVars, pagingVars,
                remotePages, segPC, segPage, knownEndPage, anyErr, mutex,
                segmentsWg, fetchCount, fetchFailed>>

\* wg.Wait(); if anyErr != nil { return anyErr }
JoinReturnsErr ==
    /\ pc = "waitSegments"
    /\ segmentsWg = 0
    /\ anyErr # Nil
    /\ goodreadsRet' = anyErr
    /\ pc' = "failed"
    /\ JoinFrame
    /\ UNCHANGED <<existingReadings, mergedReadings, readingFile>>

\* wg.Wait(), and with anyErr nil the merge with the existing file, if
\* there is one, and the write.
JoinAndWrite ==
    /\ pc = "waitSegments"
    /\ segmentsWg = 0
    /\ anyErr = Nil
    /\ existingReadings' = readingFile.Readings
    /\ mergedReadings' = IF readingFile.exists
                         THEN mergeReadings(rev, apiReadings,
                                            readingFile.Readings)
                         ELSE apiReadings
    /\ readingFile' = ReadingFileOf(mergedReadings')
    /\ goodreadsRet' = Nil
    /\ pc' = "synced"
    /\ JoinFrame

\* wg.Wait(), and with anyErr nil a failure of the read of the existing
\* file, of the marshalling or of the write.
JoinAndFail ==
    /\ pc = "waitSegments"
    /\ segmentsWg = 0
    /\ anyErr = Nil
    /\ goodreadsRet' = Err("goodreads", "write")
    /\ pc' = "failed"
    /\ JoinFrame
    /\ UNCHANGED <<existingReadings, mergedReadings, readingFile>>

\* The steps of segment s.
SegmentStep(s) ==
    \/ SegmentStops(s)
    \/ SegmentFetchFails(s)
    \/ SegmentFetchEmpty(s)
    \/ SegmentFetchPage(s)
    \/ SegmentLockEnd(s)
    \/ SegmentLockAppend(s)
    \/ SegmentSetEnd(s)
    \/ SegmentAppend(s)

\* The steps of syncGoodreads' own goroutine.
MainStep == StartSegments \/ JoinReturnsErr \/ JoinAndWrite \/ JoinAndFail

NextSegments == MainStep \/ \E s \in Segments : SegmentStep(s)

SpecSegments == Init /\ [][NextSegments]_vars

\* While a goroutine can take a step, the scheduler lets one of them take
\* one: a segment that is not waiting for a held mutex, or syncGoodreads'
\* own goroutine.  Nothing is assumed about which of them it is.
SegmentsFairness == WF_vars(NextSegments)

SpecSegmentsFair == SpecSegments /\ SegmentsFairness

----------------------------------------------------------------------------
(* What the claims speak of. *)

TweetIDsOf(s) == { s[i].ID : i \in DOMAIN s }

ReviewIDsOf(s) == { s[i].ReviewID : i \in DOMAIN s }

\* The record of batch s with the given key (batches hold a key once).
WithKey(s, sel, id) == s[CHOOSE i \in DOMAIN s : s[i][sel] = id]

\* The output holds the record rec, and nothing else, for the key id.
HoldsFor(out, sel, id, rec) ==
    /\ \E i \in DOMAIN out : out[i][sel] = id
    /\ \A i \in DOMAIN out : out[i][sel] = id => out[i] = rec

\* The ids that both batches of the mergeTweets call hold.
SharedTweetIDs == TweetIDsOf(apiTweets) \cap TweetIDsOf(existingTweets)

FreshTweet(id) == WithKey(apiTweets, "ID", id)

StoredTweet(id) == WithKey(existingTweets, "ID", id)

FavoriteDelta(id) ==
    absInt(FreshTweet(id).FavoriteCount - StoredTweet(id).FavoriteCount)

RetweetDelta(id) ==
    absInt(FreshTweet(id).RetweetCount - StoredTweet(id).RetweetCount)

SharedReviewIDs == ReviewIDsOf(apiReadings) \cap ReviewIDsOf(existingReadings)

----------------------------------------------------------------------------
(* Claims. *)

\* C1: mergeReadings(fresh, stored), batches with unique review ids: no
\* reading whose review id is absent from fresh appears in the output; a
\* stored reading missing from the fresh batch is dropped.  Stated for the
\* code as built from either revision; src/main.go's mergeReadings breaks it.
C1_AbsentFromFreshDropped ==
    pc = "done" => ReviewIDsOf(mergedReadings) \subseteq ReviewIDsOf(apiReadings)

\* C1 for the part_002 revision alone, whose mergeReadings filters the
\* existing readings with sliceKeepOnly: there the claim holds.
C1_AbsentFromFreshDropped_part_002 ==
    (pc = "done" /\ rev = "part_002")
        => ReviewIDsOf(mergedReadings) \subseteq ReviewIDsOf(apiReadings)

\* C2: mergeTweets(fresh, stored): for an id in both batches whose records
\* have equal text and deep-equal entities, if both the favorite-count delta
\* and the retweet-count delta are below 3 (0 included), the output holds
\* the stored record, whatever CreatedAt, Reply and Retweet are.
C2_StoredKeptOnTrivialChange ==
    pc = "done" =>
        \A id \in SharedTweetIDs :
            ( /\ FreshTweet(id).Text = StoredTweet(id).Text
              /\ DeepEqual(FreshTweet(id).Entities, StoredTweet(id).Entities)
              /\ FavoriteDelta(id) < 3
              /\ RetweetDelta(id) < 3 )
            => HoldsFor(mergedTweets, "ID", id, StoredTweet(id))

\* C2's case: a call whose fresh and stored records for an id differ, by a
\* counter delta of 1 or 2 or in a field the pass does not read, and whose
\* output holds the stored one.
C2_Witness ==
    /\ pc = "done"
    /\ \E id \in SharedTweetIDs :
          /\ FreshTweet(id).Text = StoredTweet(id).Text
          /\ DeepEqual(FreshTweet(id).Entities, StoredTweet(id).Entities)
          /\ FavoriteDelta(id) < 3 /\ RetweetDelta(id) < 3
          /\ FavoriteDelta(id) + RetweetDelta(id) > 0
          /\ FreshTweet(id).Reply # StoredTweet(id).Reply
          /\ HoldsFor(mergedTweets, "ID", id, StoredTweet(id))

\* C3: mergeTweets(fresh, stored): for an id in both batches, if the
\* favorite-count delta or the retweet-count delta is 3 or more (either
\* direction, exactly 3 included, the other delta below 3 included), the
\* output holds the fresh record.
C3_FreshKeptOnNonTrivialChange ==
    pc = "done" =>
        \A id \in SharedTweetIDs :
            (FavoriteDelta(id) >= 3 \/ RetweetDelta(id) >= 3)
            => HoldsFor(mergedTweets, "ID", id, FreshTweet(id))

\* C3's case: equal text and entities, the stored retweet count exactly 3
\* above the fresh one, the favorite delta below 3 and not 0, the fresh
\* record in the output.
C3_Witness ==
    /\ pc = "done"
    /\ \E id \in SharedTweetIDs :
          /\ FreshTweet(id).Text = StoredTweet(id).Text
          /\ DeepEqual(FreshTweet(id).Entities, StoredTweet(id).Entities)
          /\ StoredTweet(id).RetweetCount - FreshTweet(id).RetweetCount = 3
          /\ FavoriteDelta(id) = 2
          /\ HoldsFor(mergedTweets, "ID", id, FreshTweet(id))

\* C4: mergeTweets(fresh, stored): for an id in both batches whose texts
\* differ, the output holds the fresh record, even when both counter deltas
\* are below 3.
C4_FreshKeptOnTextChange ==
    pc = "done" =>
        \A id \in SharedTweetIDs :
            FreshTweet(id).Text # StoredTweet(id).Text
            => HoldsFor(mergedTweets, "ID", id, FreshTweet(id))

\* C4's case: the texts differ, both deltas are below 3, the records differ
\* in a counter too, and the output holds the fresh record.
C4_Witness ==
    /\ pc = "done"
    /\ \E id \in SharedTweetIDs :
          /\ FreshTweet(id).Text # StoredTweet(id).Text
          /\ FavoriteDelta(id) < 3 /\ RetweetDelta(id) < 3
          /\ FavoriteDelta(id) + RetweetDelta(id) > 0
          /\ HoldsFor(mergedTweets, "ID", id, FreshTweet(id))

\* C5: mergeTweets(fresh, stored): for an id in both batches whose entities
\* differ by deep comparison, the output holds the fresh record, even when
\* the texts are equal and both counter deltas are below 3.  Stated for the
\* code as built from either revision; src/main.go's pass, which does not
\* compare Entities, breaks it.
C5_FreshKeptOnEntitiesChange ==
    pc = "done" =>
        \A id \in SharedTweetIDs :
            ~DeepEqual(FreshTweet(id).Entities, StoredTweet(id).Entities)
            => HoldsFor(mergedTweets, "ID", id, FreshTweet(id))

\* C5 for the part_002 revision alone, whose pass continues on Entities
\* that are not deep-equal: there the claim holds.
C5_FreshKeptOnEntitiesChange_part_002 ==
    (pc = "done" /\ rev = "part_002") =>
        \A id \in SharedTweetIDs :
            ~DeepEqual(FreshTweet(id).Entities, StoredTweet(id).Entities)
            => HoldsFor(mergedTweets, "ID", id, FreshTweet(id))

\* C6: mergeTweets(fresh, stored), unique ids per batch: the ids of the
\* output are exactly the ids of fresh and of stored together, and each
\* output record is, field for field, the fresh or the stored record with
\* its id.
C6_UnionOfIDsNoMixing ==
    pc = "done" =>
        /\ TweetIDsOf(mergedTweets)
               = TweetIDsOf(apiTweets) \cup TweetIDsOf(existingTweets)
        /\ \A i \in DOMAIN mergedTweets :
              \/ \E k \in DOMAIN apiTweets : mergedTweets[i] = apiTweets[k]
              \/ \E k \in DOMAIN existingTweets :
                     mergedTweets[i] = existingTweets[k]

\* C6's case: an id only in fresh, an id only in stored and an id in both
\* with different records, all three in the output.
C6_Witness ==
    /\ pc = "done"
    /\ TweetIDsOf(apiTweets) \ TweetIDsOf(existingTweets) # {}
    /\ TweetIDsOf(existingTweets) \ TweetIDsOf(apiTweets) # {}
    /\ \E id \in SharedTweetIDs : FreshTweet(id) # StoredTweet(id)
    /\ Len(mergedTweets) = 3

\* C7: over runs in which each mergeTweets call's stored batch is the
\* previous call's output, a tweet id that is in an output is in every later
\* output, also when later fresh batches lack it or are empty.  As a step
\* property: no run removes an id from the file.
C7_IDsNeverLeave ==
    [][TweetIDsOf(tweetFile.Tweets) \subseteq TweetIDsOf(tweetFile'.Tweets)]_vars

\* C7's case: a run that merged an empty fresh batch into a stored one that
\* holds tweets, and wrote them all.
C7_Witness ==
    /\ pc = "synced"
    /\ apiTweets = <<>>
    /\ Len(existingTweets) = 3
    /\ TweetIDsOf(tweetFile.Tweets) = TweetIDsOf(existingTweets)

\* C8: mergeReadings(fresh, stored): for every review id in both batches
\* the output record is the fresh one, whatever the two payloads are.
C8_FreshReadingWins ==
    pc = "done" =>
        \A id \in SharedReviewIDs :
            HoldsFor(mergedReadings, "ReviewID", id,
                     WithKey(apiReadings, "ReviewID", id))

\* C8's case: a review id in both batches with different payloads, the
\* fresh one in the output.
C8_Witness ==
    /\ pc = "done"
    /\ \E id \in SharedReviewIDs :
          /\ WithKey(apiReadings, "ReviewID", id).Review
                # WithKey(existingReadings, "ReviewID", id).Review
          /\ WithKey(apiReadings, "ReviewID", id).Rating
                # WithKey(existingReadings, "ReviewID", id).Rating
          /\ HoldsFor(mergedReadings, "ReviewID", id,
                      WithKey(apiReadings, "ReviewID", id))

\* C9: the output of mergeTweets is strictly descending by tweet id, for
\* batches with unique ids in any order, and so holds no id twice.
C9_TweetsStrictlyDescending ==
    pc = "done" =>
        \A i, j \in DOMAIN mergedTweets :
            i < j => mergedTweets[i].ID > mergedTweets[j].ID

\* C9's case: both batches ascending, sharing an id, three ids in the
\* output.
C9_Witness ==
    /\ pc = "done"
    /\ Len(apiTweets) = 2 /\ apiTweets[1].ID < apiTweets[2].ID
    /\ Len(existingTweets) = 2 /\ existingTweets[1].ID < existingTweets[2].ID
    /\ SharedTweetIDs # {}
    /\ Len(mergedTweets) = 3
    /\ mergedTweets[1].ID > mergedTweets[2].ID
    /\ mergedTweets[2].ID > mergedTweets[3].ID

\* C10: the output of mergeReadings is strictly descending by review id,
\* for batches with unique ids in any order, and so holds no review id twice.
C10_ReadingsStrictlyDescending ==
    pc = "done" =>
        \A i, j \in DOMAIN mergedReadings :
            i < j => mergedReadings[i].ReviewID > mergedReadings[j].ReviewID

\* C10's case: both batches ascending and holding the same two review ids,
\* two readings in the output, descending.
C10_Witness ==
    /\ pc = "done"
    /\ Len(apiReadings) = 2 /\ apiReadings[1].ReviewID < apiReadings[2].ReviewID
    /\ ReviewIDsOf(existingReadings) = ReviewIDsOf(apiReadings)
    /\ existingReadings[1].ReviewID < existingReadings[2].ReviewID
    /\ Len(mergedReadings) = 2
    /\ mergedReadings[1].ReviewID > mergedReadings[2].ReviewID

\* C11: merging an output of mergeTweets with an empty stored batch gives
\* that output again, record for record and in the same order.
C11_MergeWithEmptyIsIdentity ==
    pc = "done" => mergeTweets(rev, mergedTweets, <<>>) = mergedTweets

\* An output of three tweets, one of them the stored observation of a tweet
\* both batches have, has been merged again.
C11_Witness ==
    /\ pc = "done"
    /\ Len(mergedTweets) = 3
    /\ \E id \in SharedTweetIDs :
          /\ FreshTweet(id) # StoredTweet(id)
          /\ HoldsFor(mergedTweets, "ID", id, StoredTweet(id))
    /\ mergeTweets(rev, mergedTweets, <<>>) = mergedTweets

\* fresh sorted descending by review id.
FreshDescending(fresh) == sliceReverse(SliceStable(fresh, "ReviewID"))

\* C12: the output of mergeReadings is the fresh batch sorted descending by
\* review id whatever the stored batch is: it equals the output for an empty
\* stored batch, and is empty when the fresh batch is.
C12_OutputIsFreshDescending ==
    pc = "done" =>
        /\ mergedReadings = FreshDescending(apiReadings)
        /\ mergedReadings = mergeReadings(rev, apiReadings, <<>>)
        /\ apiReadings = <<>> => mergedReadings = <<>>

\* The same for the mergeReadings of part_002 alone.
C12_OutputIsFreshDescending_part_002 ==
    rev = "part_002" => C12_OutputIsFreshDescending

\* The arguments and the result of the call on slices.
FreshBefore == IF called = "mergeTweets" THEN apiTweets ELSE apiReadings

StoredBefore == IF called = "mergeTweets" THEN existingTweets ELSE existingReadings

Returned == IF called = "mergeTweets" THEN mergedTweets ELSE mergedReadings

\* The calls on slices return what the reconcilers on sequences return.
SlicesReturnTheMerge ==
    pc = "done" /\ called # "none" =>
        Returned = IF called = "mergeTweets"
                   THEN mergeTweets(rev, apiTweets, existingTweets)
                   ELSE mergeReadings(rev, apiReadings, existingReadings)

\* C13: after a call of mergeTweets or mergeReadings has returned, the
\* caller's stored slice holds the records it held before, each at its old
\* position.
C13_StoredUnchanged ==
    pc = "done" /\ called # "none" => storedAfter = StoredBefore

\* The same for mergeTweets alone, and for the mergeReadings of main.go.
C13_StoredUnchanged_NoFilter ==
    called = "mergeTweets" \/ rev = "main.go" => C13_StoredUnchanged

\* C14: after a call of mergeTweets or mergeReadings has returned, the
\* caller's fresh slice holds the records it held before in the same order,
\* whatever its capacity was.
C14_FreshUnchanged ==
    pc = "done" /\ called # "none" => freshAfter = FreshBefore

\* The slice that the call appended to the fresh one.
AppendedToFresh ==
    IF called = "mergeReadings" /\ rev = "part_002"
    THEN sliceKeepOnly(existingReadings, apiReadings, "ReviewID", "ReviewID")
    ELSE StoredBefore

\* The same for the calls in which append had to allocate.
C14_FreshUnchanged_Reallocated ==
    ~appendShares(FreshBefore, freshCap, AppendedToFresh) => C14_FreshUnchanged

\* C18: a call of mergeTweets or mergeReadings on batches with unique ids,
\* empty ones included, returns: no index is out of range on the way, and
\* what comes back is the merged sequence.
C18_CallsReturn ==
    called # "none" => pc = "done" /\ SlicesReturnTheMerge

\* A call with an empty fresh batch and a stored batch of full length has
\* returned: nothing from the filtering mergeReadings, the stored batch
\* sorted descending from the others.
C18_Witness ==
    /\ pc = "done"
    /\ called # "none"
    /\ FreshBefore = <<>>
    /\ Len(StoredBefore) = MaxLen
    /\ Returned = IF called = "mergeReadings" /\ rev = "part_002"
                  THEN <<>> ELSE sliceReverse(SliceStable(StoredBefore,
                           IF called = "mergeTweets" THEN "ID" ELSE "ReviewID"))

\* The indices of s at which a key occurs for the first time.
FirstOccurrences(s) ==
    { i \in DOMAIN s : \A h \in 1..(i - 1) : s[h].key # s[i].key }

\* The indices of s whose key is a key of ref.
Matching(s, ref) ==
    { i \in DOMAIN s : \E h \in DOMAIN ref : ref[h].key = s[i].key }

\* out is the subsequence of s at the indices in keep, in the order of s:
\* element n of out is the element of s at the n-th smallest index of keep.
IsSubsequenceAt(out, s, keep) ==
    /\ Len(out) = Cardinality(keep)
    /\ \A i \in keep :
          out[Cardinality({ h \in keep : h <= i })] = s[i]

\* C15: what sliceUniq returns is the sequence of the first occurrences of
\* the keys of its input, in input order: no key twice, no key of the input
\* missing, and for each key its earliest element.
C15_UniqKeepsFirstOccurrences ==
    pc = "done" /\ called = "sliceUniq" =>
        /\ IsSubsequenceAt(seqOut, seqIn, FirstOccurrences(seqIn))
        /\ \A i, h \in DOMAIN seqOut : i # h => seqOut[i].key # seqOut[h].key
        /\ { seqOut[i].key : i \in DOMAIN seqOut }
               = { seqIn[i].key : i \in DOMAIN seqIn }

\* sliceUniq has returned two elements of a slice in which a key comes back
\* after another key, under another tag.
C15_Witness ==
    /\ pc = "done"
    /\ called = "sliceUniq"
    /\ Len(seqIn) = 3
    /\ seqIn[1].key = seqIn[3].key
    /\ seqIn[1].tag # seqIn[3].tag
    /\ seqIn[2].key # seqIn[1].key
    /\ seqOut = <<seqIn[1], seqIn[2]>>

\* C16: what sliceKeepOnly returns is the subsequence of its first slice, in
\* that slice's order, of the elements whose key is the key of some element
\* of the second: every such element, as often as it occurs, and nothing
\* from an empty second slice.
C16_KeepOnlyIsMatchingSubsequence ==
    pc = "done" /\ called = "sliceKeepOnly" =>
        /\ IsSubsequenceAt(seqOut, seqIn, Matching(seqIn, refIn))
        /\ refIn = <<>> => seqOut = <<>>

\* sliceKeepOnly has kept both elements of a key that occurs twice in its
\* first slice, and dropped the element between them.
C16_Witness ==
    /\ pc = "done"
    /\ called = "sliceKeepOnly"
    /\ Len(seqIn) = 3
    /\ seqIn[1].key = seqIn[3].key
    /\ seqIn[1].tag # seqIn[3].tag
    /\ seqIn[2].key \notin { refIn[h].key : h \in DOMAIN refIn }
    /\ seqOut = <<seqIn[1], seqIn[3]>>

\* C17: after sliceReverse the element that was at index i is at index
\* n-1-i, for a slice of any length n, and reversing once more gives the
\* slice as it was.
C17_ReverseMirrorsAndUndoes ==
    pc = "done" /\ called = "sliceReverse" =>
        /\ Len(seqAfter) = Len(seqIn)
        /\ \A i \in DOMAIN seqIn : seqAfter[Len(seqIn) + 1 - i] = seqIn[i]
        /\ sliceReverse(seqAfter) = seqIn

\* A slice of three elements that differ has been reversed.
C17_Witness ==
    /\ pc = "done"
    /\ called = "sliceReverse"
    /\ Len(seqIn) = 3
    /\ seqIn[1] # seqIn[3]
    /\ seqAfter = <<seqIn[3], seqIn[2], seqIn[1]>>

\* C19: when syncAll has returned, both syncs have returned and their
\* goroutines are done; it returned nil exactly when both syncs returned
\* nil, and otherwise the error of syncGoodreads if that failed and the
\* error of syncTwitter if only that failed.
C19_ReturnsAfterBothWithTheirError ==
    result # NotReturned =>
        /\ \A k \in Kinds : syncPC[k] = "done"
        /\ result = Nil <=> \A k \in Kinds : syncRet[k] = Nil
        /\ syncRet["goodreads"] # Nil => result = syncRet["goodreads"]
        /\ syncRet["goodreads"] = Nil => result = syncRet["twitter"]

\* syncAll has returned the error of syncGoodreads after both syncs failed.
C19_Witness ==
    /\ pc = "returned"
    /\ syncRet["goodreads"] = Err("goodreads", "write")
    /\ syncRet["twitter"] = Err("twitter", "fetch")
    /\ result = Err("goodreads", "write")

\* Both syncs are under way at once.
BothSyncsUnderWay ==
    /\ syncPC["goodreads"] = "reconcile"
    /\ syncPC["twitter"] = "persist"

\* The sync of kind k has begun its reconciliation: it is past it, or it
\* returned from it or from the persistence.
ReconciliationBegun(k) ==
    \/ syncPC[k] = "persist"
    \/ written[k]
    \/ syncRet[k] \in {Err(k, "read"), Err(k, "write")}

\* C20 as stated: in syncAll the reconciliation and the persistence of a
\* kind begin only once the fetches of both kinds have completed, and no
\* target file is written when the fetch of either kind failed.
C20_ReconcileAfterBothFetches ==
    \A k \in Kinds :
        /\ ReconciliationBegun(k) => \A h \in Kinds : fetched[h] # "no"
        /\ written[k] => \A h \in Kinds : fetched[h] # "failed"

\* C20: in syncAll the reconciliation and the persistence of a kind begin
\* only once the fetch of that same kind has succeeded; a sync whose fetch
\* failed returns the fetch's error and leaves its target file unwritten,
\* whatever the sync of the other kind does.
C20_ReconcileAfterOwnFetch ==
    \A k \in Kinds :
        /\ ReconciliationBegun(k) => fetched[k] = "ok"
        /\ fetched[k] = "failed" =>
              /\ ~written[k]
              /\ syncPC[k] \in {"returned", "assigned", "done"}
              /\ syncRet[k] = Err(k, "fetch")

\* syncAll has returned the error of the failed Goodreads fetch; the
\* Goodreads file is not written and the Twitter file is.
C20_Witness ==
    /\ pc = "returned"
    /\ fetched["goodreads"] = "failed"
    /\ result = Err("goodreads", "fetch")
    /\ ~written["goodreads"]
    /\ written["twitter"]

\* s is ordered strictly descending by the integer field sel, which leaves
\* no identifier twice.
StrictlyDescending(s, sel) ==
    \A i, j \in DOMAIN s : i < j => s[i][sel] > s[j][sel]

\* C21: after every successful run of syncGoodreads or syncTwitter the
\* snapshot written is ordered descending by identifier and free of
\* duplicates, the first run, which finds no target file, included.
C21_WrittenSnapshotIsReconciled ==
    pc = "synced" =>
        /\ StrictlyDescending(readingFile.Readings, "ReviewID")
        /\ StrictlyDescending(tweetFile.Tweets, "ID")

\* The same for the runs of syncGoodreads that find a target file.
C21_WrittenSnapshotIsReconciled_Merged ==
    [][readingFile.exists /\ pc' = "synced" =>
           StrictlyDescending(readingFile'.Readings, "ReviewID")]_vars

\* The same for syncTwitter, whose timeline pages come newest first.
C21_WrittenSnapshotIsReconciled_Twitter ==
    pc = "synced" => StrictlyDescending(tweetFile.Tweets, "ID")

\* The working slice of mergeTweets after its sort.
SortedTweets == SliceStable(apiTweets \o existingTweets, "ID")

\* C22: after the stable ascending sort of the fresh batch followed by the
\* stored one, the two records of every id that both batches have are
\* neighbours, the fresh one first, which is where the anti-churn pass
\* looks.
C22_FreshImmediatelyBeforeStored ==
    pc = "done" =>
        \A id \in SharedTweetIDs :
            \E i \in 1..(Len(SortedTweets) - 1) :
                /\ SortedTweets[i].ID = id
                /\ SortedTweets[i] = FreshTweet(id)
                /\ SortedTweets[i + 1] = StoredTweet(id)
                /\ \A h \in DOMAIN SortedTweets :
                      SortedTweets[h].ID = id => h \in {i, i + 1}

\* Two ids are shared, the batches list them in opposite orders, and the
\* observations of one of them differ.
C22_Witness ==
    /\ pc = "done"
    /\ Cardinality(SharedTweetIDs) = 2
    /\ Len(apiTweets) = 2
    /\ apiTweets[1].ID = existingTweets[2].ID
    /\ \E id \in SharedTweetIDs : FreshTweet(id) # StoredTweet(id)
    /\ Len(SortedTweets) = 4

\* C23 as stated: after sliceUniq the slice passed to it has the elements
\* it had, each at its old position.
C23_UniqLeavesInputAlone ==
    pc = "done" /\ called = "sliceUniq" => seqAfter = seqIn

\* C23: sliceUniq compacts the slice passed to it where it is and returns
\* its head: after the call that slice shows the returned elements first
\* and behind them the elements it had at those positions before; it is as
\* before exactly when the returned elements are its own head.
C23_UniqCompactsInPlace ==
    pc = "done" /\ called = "sliceUniq" =>
        /\ seqAfter = seqOut \o SubSeq(seqIn, Len(seqOut) + 1, Len(seqIn))
        /\ seqAfter = seqIn <=> seqOut = SubSeq(seqIn, 1, Len(seqOut))

\* sliceUniq has moved the third element of a slice over the repeated key
\* at its second position: the caller's slice now shows it twice.
C23_Witness ==
    /\ pc = "done"
    /\ called = "sliceUniq"
    /\ Len(seqIn) = 3
    /\ seqIn[1].key = seqIn[2].key
    /\ seqIn[3].key # seqIn[1].key
    /\ seqOut = <<seqIn[1], seqIn[3]>>
    /\ seqAfter = <<seqIn[1], seqIn[3], seqIn[3]>>

\* How often the reading of page p is in the accumulated readings.
TimesAppended(p) ==
    Cardinality({ i \in DOMAIN apiReadings : apiReadings[i].ReviewID = p })

\* The segments have all called wg.Done().
SegmentsJoined == pc # "idle" /\ segmentsWg = 0

MergedTweet(id) == WithKey(mergedTweets, "ID", id)

\* C25: for every id of the fresh batch the record that mergeTweets returns
\* has a favorite count and a retweet count within 2 of the fresh record's.
C25_CountersWithinTwoOfFresh ==
    pc = "done" =>
        \A id \in TweetIDsOf(apiTweets) :
            /\ id \in TweetIDsOf(mergedTweets)
            /\ absInt(MergedTweet(id).FavoriteCount
                      - FreshTweet(id).FavoriteCount) <= 2
            /\ absInt(MergedTweet(id).RetweetCount
                      - FreshTweet(id).RetweetCount) <= 2

\* The same for the file after every run of a sequence of runs of
\* syncTwitter.
C25_CountersWithinTwoOfFresh_Sync ==
    pc = "synced" =>
        \A id \in TweetIDsOf(apiTweets) :
            \E i \in DOMAIN tweetFile.Tweets :
                /\ tweetFile.Tweets[i].ID = id
                /\ absInt(tweetFile.Tweets[i].FavoriteCount
                          - FreshTweet(id).FavoriteCount) <= 2
                /\ absInt(tweetFile.Tweets[i].RetweetCount
                          - FreshTweet(id).RetweetCount) <= 2

\* The stored record was kept for an id whose retweet count moved by 2, and
\* one with a count that moved by 3 would not be: the output differs from
\* the fresh batch.
C25_Witness ==
    /\ pc = "done"
    /\ \E id \in SharedTweetIDs :
          /\ absInt(RetweetDelta(id)) = 2
          /\ MergedTweet(id) = StoredTweet(id)
          /\ MergedTweet(id) # FreshTweet(id)

\* How many slots of the slice hold the record.
TimesIn(s, e) == Cardinality({ i \in DOMAIN s : s[i] = e })

Flipped == pc = "done" /\ called = "flipDuplicateTweetsOnTrivialChanges"

\* C26: on a slice sorted by ID, lowest first,
\* flipDuplicateTweetsOnTrivialChanges only permutes: the slice holds the
\* same records as often as before, is still sorted, and a record whose ID
\* stands once in the slice is at the index it was at.
C26_FlipOnlyPermutes ==
    Flipped =>
        /\ Len(seqAfter) = Len(seqIn)
        /\ \A e \in FlipRecords : TimesIn(seqAfter, e) = TimesIn(seqIn, e)
        /\ \A i, j \in DOMAIN seqAfter :
              i < j => seqAfter[i].ID <= seqAfter[j].ID
        /\ \A i \in DOMAIN seqIn :
              Cardinality({ k \in DOMAIN seqIn : seqIn[k].ID = seqIn[i].ID }) = 1
                  => seqAfter[i] = seqIn[i]

\* A pair was swapped next to a record whose ID stands once.
C26_Witness ==
    /\ Flipped
    /\ seqAfter # seqIn
    /\ \E i \in DOMAIN seqIn :
          Cardinality({ k \in DOMAIN seqIn : seqIn[k].ID = seqIn[i].ID }) = 1

\* C27: once a fetch of a page has failed in a segment, syncGoodreads does
\* not write the target file and does not return nil: it returns an error.
C27_FailedFetchFailsTheRun ==
    fetchFailed =>
        /\ readingFile = NoReadingFile
        /\ pc # "synced"
        /\ pc = "failed" => goodreadsRet \notin {Nil, NotReturned}

\* No step of a segment or of the join sets anyErr back to nil.
C27_FailedFetchFailsTheRun_ErrorStays ==
    [][anyErr # Nil => anyErr' # Nil]_vars

\* syncGoodreads has returned from a run in which a fetch failed and pages
\* of other segments were appended.
C27_Witness ==
    /\ pc = "failed"
    /\ fetchFailed
    /\ apiReadings # <<>>
    /\ goodreadsRet = anyErr
    /\ readingFile = NoReadingFile

\* The step is one of segment s that reads or writes readings, knownEndPage
\* or anyErr: every step of the segment but its waiting for the mutex.
AccessesShared(s) ==
    /\ segPC[s] \in {"check", "setEnd", "append"}
    /\ segPC'[s] # segPC[s] \/ segPage'[s] # segPage[s]

\* C28: a segment reads and writes readings, knownEndPage and anyErr only
\* while it holds the mutex.
C28_SharedAccessUnderMutex ==
    [][\A s \in Segments : AccessesShared(s) => mutex = s]_vars

\* The accesses between mutex.Lock() and mutex.Unlock() are made by the
\* holder of the mutex.
C28_SharedAccessUnderMutex_Locked ==
    [][\A s \in Segments :
          segPC[s] \in {"setEnd", "append"} /\ segPC'[s] # segPC[s]
              => mutex = s]_vars

\* One segment holds the mutex and is about to write knownEndPage while
\* another is at the unlocked read of it.
C28_RaceOnKnownEndPage ==
    \E s, u \in Segments :
        /\ s # u
        /\ segPC[s] = "setEnd" /\ mutex = s
        /\ segPC[u] = "check"

AllSegmentsDone == \A s \in Segments : segPC[s] = "done"

\* C29: once the six segments are started, each of them comes to its
\* wg.Done(), and wg.Wait() returns, whether fetches fail or not:
\* syncGoodreads comes to its return.
C29_SegmentsEndAndWaitReturns ==
    (pc = "waitSegments")
        ~> (AllSegmentsDone /\ segmentsWg = 0 /\ pc \in {"failed", "synced"})

\* syncGoodreads has returned from a run in which one segment ended on a
\* failed fetch and another on the empty page it recorded.
C29_Witness ==
    /\ pc = "failed"
    /\ AllSegmentsDone
    /\ segmentsWg = 0
    /\ fetchFailed
    /\ knownEndPage # 0
    /\ mutex = 0

\* C30: with every page of the timeline strictly descending by ID and
\* holding no ID above the MaxID of its request, the tweets that
\* syncTwitter's paging accumulates have strictly decreasing IDs: the tweet
\* at the boundary of two pages is taken once.
C30_PagedTweetsDescending ==
    pc \in {"paging", "paged"} => StrictlyDescending(apiTweets, "ID")

\* MaxID is the ID of the tweet accumulated last.
C30_PagedTweetsDescending_MaxID ==
    pc \in {"paging", "paged"} /\ apiTweets # <<>> =>
        maxTweetID = apiTweets[Len(apiTweets)].ID

\* The page returned last began with the tweet at the boundary, which the
\* page before had brought: only the tweets behind it were appended.
C30_Witness ==
    /\ pc = "paging"
    /\ Len(apiPage) >= 2
    /\ Len(apiTweets) > Len(apiPage)
    /\ apiTweets[Len(apiTweets) - Len(apiPage) + 1].ID = apiPage[1].ID
    /\ apiTweets[Len(apiTweets) - Len(apiPage) + 2].ID = apiPage[2].ID

====
